---- MODULE Spec2Model ----
(***************************************************************************)
(* RoomGraph: rooms (closed counter-clockwise faces) reconstructed from a  *)
(* list of 2D segments with a half-edge graph (src/RoomGraph.cpp).         *)
(*                                                                         *)
(* A double is modelled by the value it stands for, and its arithmetic by  *)
(* exact arithmetic on these values (snapping quotient, shoelace sum,      *)
(* centroid), with the one rounding that changes a result by more than its *)
(* last bit: an addition returns its larger operand when the smaller lies  *)
(* below 2^-54 of it.  An angle returned by atan2 is modelled by the        *)
(* primitive integer direction it is the argument of; angles compare as    *)
(* atan2's results in (-pi, pi] do.                                        *)
(***************************************************************************)
EXTENDS Integers, Sequences, FiniteSets, TLC

VARIABLES m_nodes, m_edges, m_rooms, m_nodeIndex,
          pc, calls, segments, i, poly, currentId, exit,
          sortTies, builds, walks, roomWalk

vars == <<m_nodes, m_edges, m_rooms, m_nodeIndex,
          pc, calls, segments, i, poly, currentId, exit,
          sortTies, builds, walks, roomWalk>>

----------------------------------------------------------------------------
(* Double arithmetic.  A value is <<n, d, e>>, standing for (n / d) * 2^e  *)
(* with n and d odd and coprime, d > 0 (zero is <<0, 1, 0>>).              *)

Abs(a) == IF a < 0 THEN -a ELSE a

Min(a, b) == IF a < b THEN a ELSE b

RECURSIVE GCD(_, _)
GCD(a, b) == IF b = 0 THEN a ELSE GCD(b, a % b)

RECURSIVE Pow2(_)
Pow2(k) == IF k = 0 THEN 1 ELSE 2 * Pow2(k - 1)

(* The number of times 2 divides n > 0, and the position of n's top bit.   *)
RECURSIVE TwoAdic(_)
TwoAdic(n) == IF n % 2 = 0 THEN 1 + TwoAdic(n \div 2) ELSE 0

RECURSIVE Log2(_)
Log2(n) == IF n <= 1 THEN 0 ELSE 1 + Log2(n \div 2)

Norm(n, d, e) ==
    IF n = 0 THEN <<0, 1, 0>>
    ELSE LET s  == IF d < 0 THEN -1 ELSE 1
             a  == TwoAdic(Abs(n))
             b  == TwoAdic(Abs(d))
             n1 == (s * n) \div Pow2(a)
             d1 == Abs(d) \div Pow2(b)
             g  == GCD(Abs(n1), d1)
         IN  <<n1 \div g, d1 \div g, e + a - b>>

Rat(n, d) == Norm(n, d, 0)

R(n) == Norm(n, 1, 0)

Zero == R(0)

Half == Rat(1, 2)

RNeg(a) == <<-a[1], a[2], a[3]>>

RAbs(a) == <<Abs(a[1]), a[2], a[3]>>

(* The binary order of magnitude of a non-zero value, to within 1.         *)
Mag(a) == Log2(Abs(a[1])) - Log2(a[2]) + a[3]

(* |small| < |big| * 2^-54: small is less than half the distance from big  *)
(* to the nearest double on either side, and big + small rounds to big.    *)
Absorbs(big, small) ==
    LET s == big[3] - small[3] - 54
    IN  \/ Mag(big) - Mag(small) >= 57
        \/ /\ Mag(big) - Mag(small) >= 53
           /\ IF s >= 0
              THEN Abs(small[1]) * big[2] < Abs(big[1]) * small[2] * Pow2(s)
              ELSE Abs(small[1]) * big[2] * Pow2(-s) < Abs(big[1]) * small[2]

(* a + b in round-to-nearest: the larger operand when it absorbs the       *)
(* smaller, the exact sum otherwise (rounding within the last bit of a sum *)
(* is not followed).                                                       *)
RAdd(a, b) ==
    IF a[1] = 0 THEN b
    ELSE IF b[1] = 0 THEN a
    ELSE IF Absorbs(a, b) THEN a
    ELSE IF Absorbs(b, a) THEN b
    ELSE LET e == Min(a[3], b[3])
             g == GCD(a[2], b[2])
         IN  Norm(a[1] * Pow2(a[3] - e) * (b[2] \div g)
                    + b[1] * Pow2(b[3] - e) * (a[2] \div g),
                  (a[2] \div g) * b[2], e)

RSub(a, b) == RAdd(a, RNeg(b))

RMul(a, b) ==
    LET g1 == GCD(Abs(a[1]), b[2])
        g2 == GCD(Abs(b[1]), a[2])
    IN  Norm((a[1] \div g1) * (b[1] \div g2),
             (a[2] \div g2) * (b[2] \div g1), a[3] + b[3])

RDiv(a, b) == RMul(a, Norm(b[2], b[1], -b[3]))

RLess(a, b) == RSub(a, b)[1] < 0

RFloor(a) ==
    IF a[3] >= 0 THEN (a[1] * Pow2(a[3])) \div a[2]
    ELSE a[1] \div (a[2] * Pow2(-a[3]))

----------------------------------------------------------------------------
(* Geometry.h                                                              *)

Vec2(x, y) == [x |-> x, y |-> y]

Segment(a, b) == [a |-> a, b |-> b]

(* std::atan2(dy, dx) for a non-zero vector: the direction, as the         *)
(* primitive integer vector parallel to (dx, dy).                          *)
Atan2(dy, dx) ==
    LET e  == IF dx[1] = 0 THEN dy[3]
              ELSE IF dy[1] = 0 THEN dx[3]
              ELSE Min(dx[3], dy[3])
        g  == GCD(dx[2], dy[2])
        ix == IF dx[1] = 0 THEN 0
              ELSE dx[1] * Pow2(dx[3] - e) * (dy[2] \div g)
        iy == IF dy[1] = 0 THEN 0
              ELSE dy[1] * Pow2(dy[3] - e) * (dx[2] \div g)
        h  == GCD(Abs(ix), Abs(iy))
    IN  [dx |-> ix \div h, dy |-> iy \div h]

(* Where an angle of (-pi, pi] lies: below the x axis, 0, above, pi.       *)
AngleRank(a) ==
    IF a.dy < 0 THEN 0
    ELSE IF a.dy = 0 /\ a.dx > 0 THEN 1
    ELSE IF a.dy > 0 THEN 2
    ELSE 3

AngleLess(a, b) ==
    \/ AngleRank(a) < AngleRank(b)
    \/ /\ AngleRank(a) = AngleRank(b)
       /\ a.dx * b.dy - b.dx * a.dy > 0

----------------------------------------------------------------------------
(* RoomGraph: construction of nodes and half-edges.                        *)

m_snapSize == Rat(1, 1000)

AreaTolerance == Rat(1, 1000000)

GridCoordTruncated(v) == RFloor(RDiv(v, m_snapSize))

GridCoord(v) == RFloor(RAdd(RDiv(v, m_snapSize), Half))

GridKey(p) == <<GridCoord(p.x), GridCoord(p.y)>>

Node(id, pos) == [id |-> id, pos |-> pos, outgoingEdges |-> <<>>]

HalfEdge(id, from, to, twin, angle) ==
    [id |-> id, from |-> from, to |-> to, twin |-> twin,
     next |-> -1, used |-> FALSE, angle |-> angle]

(* findOrCreateNode once the grid key of p is known.                       *)
NodeOfKey(nodes, index, p, key) ==
    IF key \in DOMAIN index
    THEN [nodes |-> nodes, index |-> index, id |-> index[key]]
    ELSE [nodes |-> Append(nodes, Node(Len(nodes), p)),
          index |-> (key :> Len(nodes)) @@ index,
          id    |-> Len(nodes)]

findOrCreateNode(nodes, index, p) == NodeOfKey(nodes, index, p, GridKey(p))

(* The two half-edges of one accepted segment from node a to node b.       *)
TwinEdgesSelfTwin(id1, a, b, pa, pb) ==
    <<HalfEdge(id1, a, b, id1 + 1,
               Atan2(RSub(pb.y, pa.y), RSub(pb.x, pa.x))),
      HalfEdge(id1 + 1, b, a, id1 + 1,
               Atan2(RSub(pa.y, pb.y), RSub(pa.x, pb.x)))>>

TwinEdges(id1, a, b, pa, pb) ==
    <<HalfEdge(id1, a, b, id1 + 1,
               Atan2(RSub(pb.y, pa.y), RSub(pb.x, pa.x))),
      HalfEdge(id1 + 1, b, a, id1,
               Atan2(RSub(pa.y, pb.y), RSub(pa.x, pb.x)))>>

(* One iteration of the loop of buildNodesAndEdges: the two half-edges e   *)
(* are appended and registered at their origins; ra and rb are the results *)
(* of findOrCreateNode for the two end points.                             *)
PushEdges(g, rb, e) ==
    [nodes |-> [rb.nodes EXCEPT
                  ![e[1].from + 1].outgoingEdges = Append(@, e[1].id),
                  ![e[2].from + 1].outgoingEdges = Append(@, e[2].id)],
     edges |-> Append(Append(g.edges, e[1]), e[2]),
     index |-> rb.index]

LinkNodes(g, ra, rb) ==
    IF ra.id = rb.id
    THEN [nodes |-> rb.nodes, edges |-> g.edges, index |-> rb.index]
    ELSE PushEdges(g, rb,
                   TwinEdges(Len(g.edges), ra.id, rb.id,
                             rb.nodes[ra.id + 1].pos, rb.nodes[rb.id + 1].pos))

SecondNode(g, s, ra) ==
    LinkNodes(g, ra, findOrCreateNode(ra.nodes, ra.index, s.b))

AddSegment(g, s) ==
    SecondNode(g, s, findOrCreateNode(g.nodes, g.index, s.a))

RECURSIVE buildNodesAndEdges(_, _)
buildNodesAndEdges(g, segs) ==
    IF segs = <<>> THEN g
    ELSE buildNodesAndEdges(AddSegment(g, Head(segs)), Tail(segs))

----------------------------------------------------------------------------
(* RoomGraph: angular order and the face-walk relation.                    *)

EdgeAngleLess(edges, e1, e2) ==
    AngleLess(edges[e1 + 1].angle, edges[e2 + 1].angle)

(* std::sort leaves the relative order of equivalent elements unspecified; *)
(* it is a function of its input all the same.  ties says what the sort of *)
(* this library does with two edges of equal angle: keep or swap them.     *)
SortedBefore(edges, out, ties, p, q) ==
    \/ EdgeAngleLess(edges, out[p], out[q])
    \/ /\ ~EdgeAngleLess(edges, out[q], out[p])
       /\ IF ties = "kept" THEN p < q ELSE p > q

SortOut(edges, out, ties) ==
    IF Len(out) <= 1 THEN out
    ELSE [k \in 1..Len(out) |->
            out[CHOOSE p \in 1..Len(out) :
                  Cardinality({q \in 1..Len(out) :
                      q # p /\ SortedBefore(edges, out, ties, q, p)}) = k - 1]]

sortOutgoingByAngle(nodes, edges, ties) ==
    [k \in 1..Len(nodes) |->
        [nodes[k] EXCEPT !.outgoingEdges = SortOut(edges, @, ties)]]

(* The loop of buildNextRelations that looks for twinId in out: the        *)
(* 0-based position of the first occurrence, -1 when there is none.        *)
IndexOfSkipFirst(out, id) ==
    IF \E k \in 2..Len(out) : out[k] = id
    THEN (CHOOSE k \in 2..Len(out) :
            out[k] = id /\ \A j \in 2..(k - 1) : out[j] # id) - 1
    ELSE -1

IndexOf(out, id) ==
    IF \E k \in 1..Len(out) : out[k] = id
    THEN (CHOOSE k \in 1..Len(out) :
            out[k] = id /\ \A j \in 1..(k - 1) : out[j] # id) - 1
    ELSE -1

NextPosClamped(pos, n) == IF pos = 0 THEN 0 ELSE pos - 1

NextPosForward(pos, n) == (pos + 1) % n

NextPos(pos, n) == (pos - 1 + n) % n

NextOf(nodes, e) ==
    IF e.to < 0 \/ e.to >= Len(nodes) THEN e.next
    ELSE LET out == nodes[e.to + 1].outgoingEdges
             pos == IndexOf(out, e.twin)
         IN  IF out = <<>> THEN e.next
             ELSE IF pos < 0 THEN e.next
             ELSE out[NextPos(pos, Len(out)) + 1]

buildNextRelations(nodes, edges) ==
    [k \in 1..Len(edges) |-> [edges[k] EXCEPT !.next = NextOf(nodes, edges[k])]]

----------------------------------------------------------------------------
(* RoomGraph: area, centroid and the walk.                                 *)

Cross(p, q) == RSub(RMul(p.x, q.y), RMul(q.x, p.y))

RECURSIVE AreaSum(_, _)
AreaSum(pl, k) ==
    IF k = 0 THEN Zero
    ELSE RAdd(AreaSum(pl, k - 1), Cross(pl[k], pl[(k % Len(pl)) + 1]))

computeSignedArea(pl) ==
    IF Len(pl) < 3 THEN Zero
    ELSE RMul(Half, AreaSum(pl, Len(pl)))

RECURSIVE CentroidSumX(_, _)
CentroidSumX(pl, k) ==
    IF k = 0 THEN Zero
    ELSE LET p == pl[k]
             q == pl[(k % Len(pl)) + 1]
         IN  RAdd(CentroidSumX(pl, k - 1), RMul(RAdd(p.x, q.x), Cross(p, q)))

RECURSIVE CentroidSumY(_, _)
CentroidSumY(pl, k) ==
    IF k = 0 THEN Zero
    ELSE LET p == pl[k]
             q == pl[(k % Len(pl)) + 1]
         IN  RAdd(CentroidSumY(pl, k - 1), RMul(RAdd(p.y, q.y), Cross(p, q)))

computeCentroidMean(pl, signedArea) ==
    IF Len(pl) < 3 THEN Vec2(Zero, Zero)
    ELSE LET factor == RDiv(R(1), RMul(R(2), signedArea))
         IN  Vec2(RMul(CentroidSumX(pl, Len(pl)), factor),
                  RMul(CentroidSumY(pl, Len(pl)), factor))

computeCentroid(pl, signedArea) ==
    IF Len(pl) < 3 THEN Vec2(Zero, Zero)
    ELSE LET factor == RDiv(R(1), RMul(R(6), signedArea))
         IN  Vec2(RMul(CentroidSumX(pl, Len(pl)), factor),
                  RMul(CentroidSumY(pl, Len(pl)), factor))

Room(pl, signedArea) ==
    [polygon |-> pl,
     area    |-> RAbs(signedArea),
     center  |-> computeCentroid(pl, signedArea)]

(* The three filters of walkCycles between the walk and the Room.          *)
KeepsFaceEitherWay(pl, signedArea) ==
    /\ ~(Len(pl) < 3)
    /\ ~RLess(RAbs(signedArea), AreaTolerance)

KeepsFace(pl, signedArea) ==
    /\ ~(Len(pl) < 3)
    /\ ~RLess(RAbs(signedArea), AreaTolerance)
    /\ ~(RLess(signedArea, Zero) \/ signedArea = Zero)

(* The end of one pass of the outer loop of walkCycles.                    *)
FinishWalk(rooms, pl) ==
    LET signedArea == computeSignedArea(pl)
    IN  IF KeepsFace(pl, signedArea)
        THEN Append(rooms, Room(pl, signedArea))
        ELSE rooms

MarkUsedNot(e) == e

MarkUsed(e) == [e EXCEPT !.used = TRUE]

(* One pass of the inner loop of walkCycles.  w holds the edges, the       *)
(* polygon so far, the current edge and the break taken ("none": the loop  *)
(* goes on).                                                               *)
InnerStep(nodes, startId, w) ==
    LET e == w.edges[w.currentId + 1]
        marked == [w.edges EXCEPT ![w.currentId + 1] = MarkUsed(@)]
    IN  IF e.used THEN [w EXCEPT !.exit = "used"]
        ELSE IF e.from < 0 \/ e.from >= Len(nodes)
        THEN [w EXCEPT !.edges = marked, !.exit = "badfrom"]
        ELSE LET pl == Append(w.poly, nodes[e.from + 1].pos)
             IN  IF e.next < 0
                 THEN [w EXCEPT !.edges = marked, !.poly = pl, !.exit = "unset"]
                 ELSE IF e.next = startId
                 THEN [w EXCEPT !.edges = marked, !.poly = pl, !.exit = "closed"]
                 ELSE [w EXCEPT !.edges = marked, !.poly = pl,
                                !.currentId = e.next]

StartWalk(edges, k) ==
    [edges |-> edges, poly |-> <<>>, currentId |-> edges[k + 1].id, exit |-> "none"]

RECURSIVE RunInner(_, _, _)
RunInner(nodes, startId, w) ==
    IF w.exit # "none" THEN w
    ELSE RunInner(nodes, startId, InnerStep(nodes, startId, w))

RECURSIVE walkCycles(_, _, _, _)
walkCycles(nodes, edges, rooms, k) ==
    IF k >= Len(edges) THEN rooms
    ELSE IF edges[k + 1].used THEN walkCycles(nodes, edges, rooms, k + 1)
    ELSE LET w == RunInner(nodes, edges[k + 1].id, StartWalk(edges, k))
         IN  walkCycles(nodes, w.edges, FinishWalk(rooms, w.poly), k + 1)

----------------------------------------------------------------------------
(* RoomGraph: the object and build().                                      *)

Graph(nodes, edges, rooms, index) ==
    [nodes |-> nodes, edges |-> edges, rooms |-> rooms, index |-> index]

Constructed == Graph(<<>>, <<>>, <<>>, <<>>)

clearKeepsRooms(g) == Graph(<<>>, <<>>, g.rooms, <<>>)

clear(g) == Graph(<<>>, <<>>, <<>>, <<>>)

(* build(segs) run to its end on a graph in state g: the room list left.   *)
build(g, segs, ties) ==
    LET c  == clear(g)
        b  == buildNodesAndEdges(c, segs)
        sn == sortOutgoingByAngle(b.nodes, b.edges, ties)
        ne == buildNextRelations(sn, b.edges)
    IN  IF segs = <<>> THEN c.rooms
        ELSE walkCycles(sn, ne, c.rooms, 0)

Self == Graph(m_nodes, m_edges, m_rooms, m_nodeIndex)

(* build(): clear(), and the return on an empty segment list.  calls holds *)
(* the segment lists the host has still to pass to build, builds counts    *)
(* the calls made; walks (the edges each walk of this build marked) and    *)
(* roomWalk (the walk each room came from) record the history of the walk. *)
Build ==
    /\ pc = "idle"
    /\ calls # <<>>
    /\ LET c == clear(Self)
       IN  /\ m_nodes' = c.nodes
           /\ m_edges' = c.edges
           /\ m_rooms' = c.rooms
           /\ m_nodeIndex' = c.index
    /\ segments' = Head(calls)
    /\ calls' = Tail(calls)
    /\ builds' = builds + 1
    /\ pc' = IF Head(calls) = <<>> THEN "idle" ELSE "buildNodesAndEdges"
    /\ i' = 0
    /\ poly' = <<>>
    /\ currentId' = -1
    /\ exit' = "none"
    /\ walks' = <<>>
    /\ roomWalk' = <<>>
    /\ UNCHANGED sortTies

BuildNodesAndEdges ==
    /\ pc = "buildNodesAndEdges"
    /\ LET b == buildNodesAndEdges(Self, segments)
       IN  /\ m_nodes' = b.nodes
           /\ m_edges' = b.edges
           /\ m_nodeIndex' = b.index
    /\ pc' = "sortOutgoingByAngle"
    /\ UNCHANGED <<m_rooms, calls, segments, i, poly, currentId, exit,
                   sortTies, builds, walks, roomWalk>>

SortOutgoingByAngle ==
    /\ pc = "sortOutgoingByAngle"
    /\ m_nodes' = sortOutgoingByAngle(m_nodes, m_edges, sortTies)
    /\ pc' = "buildNextRelations"
    /\ UNCHANGED <<m_edges, m_rooms, m_nodeIndex, calls, segments, i, poly,
                   currentId, exit, sortTies, builds, walks, roomWalk>>

BuildNextRelations ==
    /\ pc = "buildNextRelations"
    /\ m_edges' = buildNextRelations(m_nodes, m_edges)
    /\ pc' = "walkCycles"
    /\ i' = 0
    /\ UNCHANGED <<m_nodes, m_rooms, m_nodeIndex, calls, segments, poly,
                   currentId, exit, sortTies, builds, walks, roomWalk>>

(* The outer loop of walkCycles at edge i: a used edge is passed over.     *)
WalkSkip ==
    /\ pc = "walkCycles"
    /\ i < Len(m_edges)
    /\ m_edges[i + 1].used
    /\ i' = i + 1
    /\ UNCHANGED <<m_nodes, m_edges, m_rooms, m_nodeIndex, pc, calls, segments,
                   poly, currentId, exit, sortTies, builds, walks, roomWalk>>

WalkStart ==
    /\ pc = "walkCycles"
    /\ i < Len(m_edges)
    /\ ~m_edges[i + 1].used
    /\ LET w == StartWalk(m_edges, i)
       IN  /\ poly' = w.poly
           /\ currentId' = w.currentId
           /\ exit' = w.exit
    /\ pc' = "inner"
    /\ walks' = Append(walks, <<>>)
    /\ UNCHANGED <<m_nodes, m_edges, m_rooms, m_nodeIndex, calls, segments, i,
                   sortTies, builds, roomWalk>>

WalkStep ==
    /\ pc = "inner"
    /\ LET w == InnerStep(m_nodes, m_edges[i + 1].id,
                          [edges |-> m_edges, poly |-> poly,
                           currentId |-> currentId, exit |-> exit])
       IN  /\ m_edges' = w.edges
           /\ poly' = w.poly
           /\ currentId' = w.currentId
           /\ exit' = w.exit
           /\ pc' = IF w.exit = "none" THEN "inner" ELSE "finish"
           /\ walks' = IF w.exit = "used" THEN walks
                       ELSE [walks EXCEPT ![Len(walks)] = Append(@, currentId)]
    /\ UNCHANGED <<m_nodes, m_rooms, m_nodeIndex, calls, segments, i,
                   sortTies, builds, roomWalk>>

WalkFinish ==
    /\ pc = "finish"
    /\ m_rooms' = FinishWalk(m_rooms, poly)
    /\ roomWalk' = IF Len(m_rooms') > Len(m_rooms)
                   THEN Append(roomWalk, Len(walks)) ELSE roomWalk
    /\ i' = i + 1
    /\ pc' = "walkCycles"
    /\ UNCHANGED <<m_nodes, m_edges, m_nodeIndex, calls, segments, poly,
                   currentId, exit, sortTies, builds, walks>>

WalkReturn ==
    /\ pc = "walkCycles"
    /\ i >= Len(m_edges)
    /\ pc' = "idle"
    /\ UNCHANGED <<m_nodes, m_edges, m_rooms, m_nodeIndex, calls, segments, i,
                   poly, currentId, exit, sortTies, builds, walks, roomWalk>>

Next ==
    \/ Build
    \/ BuildNodesAndEdges
    \/ SortOutgoingByAngle
    \/ BuildNextRelations
    \/ WalkSkip
    \/ WalkStart
    \/ WalkStep
    \/ WalkFinish
    \/ WalkReturn

----------------------------------------------------------------------------
(* Inputs.                                                                 *)

Pt(xn, xd, yn, yd) == Vec2(Rat(xn, xd), Rat(yn, yd))

Flip(s, f) == IF f THEN Segment(s.b, s.a) ELSE s

Perms(n) == {p \in [1..n -> 1..n] : \A j, k \in 1..n : p[j] = p[k] => j = k}

Rotate(base, r) ==
    [k \in 1..Len(base) |-> base[((k - 1 + r) % Len(base)) + 1]]

Reverse(base) == [k \in 1..Len(base) |-> base[Len(base) + 1 - k]]

Orders(base) ==
    {Rotate(base, r) : r \in 0..(Len(base) - 1)}
        \cup {Reverse(Rotate(base, r)) : r \in 0..(Len(base) - 1)}

MaxSegs == 3

MaxBuilds == 2

SeqsUpTo(S, n) == UNION {[1..m -> S] : m \in 0..n}

(* A unit right triangle A B C, a stub C D, and A2, a point that snaps to  *)
(* A: B A2 repeats the segment A B backwards.                              *)
A  == Pt(0, 1, 0, 1)
A2 == Pt(1, 2500, 0, 1)
B  == Pt(1, 1, 0, 1)
C  == Pt(0, 1, 1, 1)
D  == Pt(1, 1, 1, 1)

GeneralSegs ==
    {Segment(A, B), Segment(B, C), Segment(C, A),
     Segment(B, A2), Segment(C, D)}

GeneralInputs == SeqsUpTo(GeneralSegs, MaxSegs)

(* The triangle with its stub and the repeated side, all five segments.    *)
Figure ==
    <<Segment(A, B), Segment(B, C), Segment(C, A),
      Segment(C, D), Segment(B, A2)>>

FigureInputs ==
    {[k \in 1..5 |-> Flip(o[k], f[k])] :
        o \in Orders(Figure), f \in [1..5 -> BOOLEAN]}

(* The 10 x 10 square, its sides in any order and direction.               *)
SquareSides ==
    <<Segment(Pt(0, 1, 0, 1), Pt(10, 1, 0, 1)),
      Segment(Pt(10, 1, 0, 1), Pt(10, 1, 10, 1)),
      Segment(Pt(10, 1, 10, 1), Pt(0, 1, 10, 1)),
      Segment(Pt(0, 1, 10, 1), Pt(0, 1, 0, 1))>>

SquareInputs ==
    {[k \in 1..4 |-> Flip(SquareSides[p[k]], f[k])] :
        p \in Perms(4), f \in [1..4 -> BOOLEAN]}

(* The 2 x 1 rectangle with a wall between the midpoints of its long       *)
(* sides: with the long sides whole (5 segments) and with the long sides   *)
(* cut at the wall (7 segments).                                           *)
RectWall == Segment(Pt(1, 1, 0, 1), Pt(1, 1, 1, 1))

Rect5 ==
    <<Segment(Pt(0, 1, 0, 1), Pt(2, 1, 0, 1)),
      Segment(Pt(2, 1, 0, 1), Pt(2, 1, 1, 1)),
      Segment(Pt(2, 1, 1, 1), Pt(0, 1, 1, 1)),
      Segment(Pt(0, 1, 1, 1), Pt(0, 1, 0, 1)),
      RectWall>>

Rect7 ==
    <<Segment(Pt(0, 1, 0, 1), Pt(1, 1, 0, 1)),
      Segment(Pt(1, 1, 0, 1), Pt(2, 1, 0, 1)),
      Segment(Pt(2, 1, 0, 1), Pt(2, 1, 1, 1)),
      Segment(Pt(2, 1, 1, 1), Pt(1, 1, 1, 1)),
      Segment(Pt(1, 1, 1, 1), Pt(0, 1, 1, 1)),
      Segment(Pt(0, 1, 1, 1), Pt(0, 1, 0, 1)),
      RectWall>>

Rect5Inputs ==
    {[k \in 1..5 |-> Flip(o[k], f[k])] :
        o \in Orders(Rect5), f \in [1..5 -> BOOLEAN]}

Rect7Inputs ==
    {[k \in 1..7 |-> Flip(o[k], f[(k % 3) + 1])] :
        o \in Orders(Rect7), f \in [1..3 -> BOOLEAN]}

(* Right triangles with legs of one or two grid steps: areas 0.5e-6, 1e-6  *)
(* and 2e-6, around the area tolerance.                                    *)
TinySides(kx, ky) ==
    <<Segment(Pt(0, 1, 0, 1), Pt(kx, 1000, 0, 1)),
      Segment(Pt(kx, 1000, 0, 1), Pt(0, 1, ky, 1000)),
      Segment(Pt(0, 1, ky, 1000), Pt(0, 1, 0, 1))>>

TinyInputs ==
    {[k \in 1..3 |-> Flip(TinySides(kx, ky)[p[k]], f[k])] :
        kx \in 1..2, ky \in 1..2, p \in Perms(3), f \in [1..3 -> BOOLEAN]}

(* Points around the origin's grid cell.                                   *)
P0  == Pt(0, 1, 0, 1)
P4  == Pt(4, 10000, 4, 10000)
P5  == Pt(5, 10000, 5, 10000)
PM5 == Pt(-5, 10000, -5, 10000)
P10 == Pt(1, 100, 1, 100)

SnapPoints == {P0, P4, P5, PM5, P10}

SnapSegs == {Segment(p, q) : p, q \in SnapPoints}

SnapInputs == [1..2 -> SnapSegs]

(* An open polyline of two segments whose corner lies 2^28 times farther   *)
(* from the origin than its first point.                                   *)
FarSides ==
    <<Segment(Vec2(Norm(-1, 1, -9), Zero), Vec2(Norm(1, 1, 19), Norm(1, 1, -9))),
      Segment(Vec2(Norm(1, 1, 19), Norm(1, 1, -9)), Vec2(Zero, Norm(1, 1, 19)))>>

FarInputs ==
    {[k \in 1..2 |-> Flip(o[k], f[k])] :
        o \in Orders(FarSides), f \in [1..2 -> BOOLEAN]}

Inputs ==
    GeneralInputs \cup FigureInputs \cup SquareInputs \cup Rect5Inputs
        \cup Rect7Inputs \cup TinyInputs \cup SnapInputs \cup FarInputs

RebuildInputs ==
    {<<>>,
     <<Segment(A, B)>>,
     <<Segment(A, B), Segment(B, C), Segment(C, A)>>,
     <<Segment(C, A), Segment(B, A2), Segment(B, C)>>,
     <<Segment(A, B), Segment(B, A2), Segment(B, C), Segment(C, A)>>,
     <<Segment(A, B), Segment(B, C), Segment(C, A), Segment(C, D)>>,
     <<Segment(A2, A), Segment(D, C)>>,
     Rect7}

----------------------------------------------------------------------------
(* Specifications.                                                         *)

InitWith(cs) ==
    /\ m_nodes = Constructed.nodes
    /\ m_edges = Constructed.edges
    /\ m_rooms = Constructed.rooms
    /\ m_nodeIndex = Constructed.index
    /\ pc = "idle"
    /\ calls \in cs
    /\ segments = <<>>
    /\ i = 0
    /\ poly = <<>>
    /\ currentId = -1
    /\ exit = "none"
    /\ sortTies \in {"kept", "swapped"}
    /\ builds = 0
    /\ walks = <<>>
    /\ roomWalk = <<>>

(* One build of any input.                                                 *)
Init == InitWith({<<s>> : s \in Inputs})

Spec == Init /\ [][Next]_vars

(* Up to MaxBuilds builds on one RoomGraph.                                *)
InitRebuild == InitWith(UNION {[1..m -> RebuildInputs] : m \in 1..MaxBuilds})

SpecRebuild == InitRebuild /\ [][Next]_vars

----------------------------------------------------------------------------
(* Properties.                                                             *)

Walking == {"walkCycles", "inner", "finish"}

Returned == pc = "idle" /\ builds > 0

(* buildNodesAndEdges has run in the current build.                        *)
AfterNodes ==
    \/ pc \in {"sortOutgoingByAngle", "buildNextRelations"} \cup Walking
    \/ Returned /\ segments # <<>>

(* buildNextRelations has run in the current build.                        *)
AfterNext == pc \in Walking \/ (Returned /\ segments # <<>>)

EdgeIds == 0..(Len(m_edges) - 1)

EdgeAt(id) == m_edges[id + 1]

OutOf(n) == m_nodes[n + 1].outgoingEdges

RoomIds == 1..Len(m_rooms)

Sides(base) == {{base[k].a, base[k].b} : k \in 1..Len(base)}

(* segs is base with its segments in some order, each in some direction.   *)
Rearranged(segs, base) ==
    /\ Len(segs) = Len(base)
    /\ Sides(segs) = Sides(base)

EndPoints(segs) == UNION {{segs[k].a, segs[k].b} : k \in 1..Len(segs)}

Resolve(p) == findOrCreateNode(m_nodes, m_nodeIndex, p).id

(* C1 as stated: every room has at least 3 vertices, a shoelace area       *)
(* strictly greater than the tolerance 1e-6, and stores that area.         *)
C1_StrictlyAboveTolerance ==
    \A r \in RoomIds :
        /\ Len(m_rooms[r].polygon) >= 3
        /\ RLess(AreaTolerance, computeSignedArea(m_rooms[r].polygon))
        /\ m_rooms[r].area = computeSignedArea(m_rooms[r].polygon)

(* C1 amended: every room has at least 3 vertices and a shoelace area of   *)
(* at least the tolerance 1e-6 (so it is counter-clockwise), and its       *)
(* stored area is positive and equal to that signed area.                  *)
C1_AtLeastTolerance ==
    \A r \in RoomIds :
        /\ Len(m_rooms[r].polygon) >= 3
        /\ ~RLess(computeSignedArea(m_rooms[r].polygon), AreaTolerance)
        /\ RLess(Zero, m_rooms[r].area)
        /\ m_rooms[r].area = computeSignedArea(m_rooms[r].polygon)

C1_Witness ==
    /\ Returned
    /\ \E r \in RoomIds : m_rooms[r].area = AreaTolerance
    /\ \E r \in RoomIds : Len(m_rooms[r].polygon) = 3

(* C2: the 10 x 10 square, its 4 sides in any order and direction, yields  *)
(* exactly 1 room of area 100, centroid (5, 5) and 4 vertices.             *)
C2_Square ==
    (Returned /\ Rearranged(segments, SquareSides)) =>
        /\ Len(m_rooms) = 1
        /\ m_rooms[1].area = R(100)
        /\ m_rooms[1].center = Vec2(R(5), R(5))
        /\ Len(m_rooms[1].polygon) = 4

C2_Witness ==
    /\ Returned
    /\ Rearranged(segments, SquareSides)
    /\ segments[1] = Flip(SquareSides[3], TRUE)
    /\ Len(m_rooms) = 1
    /\ Len(walks) = 2

(* The clockwise loop around the outside is in no room: every room is a    *)
(* counter-clockwise quadrilateral.                                        *)
NoExteriorLoop ==
    \A r \in RoomIds :
        /\ RLess(Zero, computeSignedArea(m_rooms[r].polygon))
        /\ Len(m_rooms[r].polygon) = 4

(* C3 as stated: the rectangle's 4 sides and the wall between the          *)
(* midpoints of the long sides, 5 segments, yield 2 rooms of area 1.       *)
C3_FiveSegmentsTwoRooms ==
    (Returned /\ Rearranged(segments, Rect5)) =>
        /\ Len(m_rooms) = 2
        /\ \A r \in RoomIds : m_rooms[r].area = R(1)
        /\ NoExteriorLoop

(* C3 amended: with the long sides cut at the wall's endpoints (7          *)
(* segments) build yields exactly 2 rooms of area 1; with the long sides   *)
(* whole (5 segments) the wall shares no node with them and build yields   *)
(* exactly 1 room of area 2; the clockwise exterior loop is in neither.    *)
C3_SplitSidesTwoRooms ==
    /\ (Returned /\ Rearranged(segments, Rect7)) =>
          /\ Len(m_rooms) = 2
          /\ \A r \in RoomIds : m_rooms[r].area = R(1)
          /\ NoExteriorLoop
    /\ (Returned /\ Rearranged(segments, Rect5)) =>
          /\ Len(m_rooms) = 1
          /\ m_rooms[1].area = R(2)
          /\ NoExteriorLoop

C3_Witness ==
    /\ Returned
    /\ Rearranged(segments, Rect7)
    /\ Len(m_rooms) = 2
    /\ \E w \in 1..Len(walks) : Len(walks[w]) = 6

(* The undirected graph of the accepted segments has no cycle: stripping   *)
(* the edges that end in a node of degree 1 leaves nothing.                *)
Ends(e) == {EdgeAt(e).from, EdgeAt(e).to}

RECURSIVE Acyclic(_)
Acyclic(E) ==
    LET leaves == {e \in E : \E v \in Ends(e) :
                      Cardinality({f \in E : v \in Ends(f)}) = 1}
    IN  IF E = {} THEN TRUE
        ELSE IF leaves = {} THEN FALSE
        ELSE Acyclic(E \ leaves)

Forest == Acyclic({e \in EdgeIds : e % 2 = 0})

(* C4: segments that form no closed polygon (one open segment, an open     *)
(* polyline, a tree) yield an empty room list.                             *)
C4_NoCycleNoRoom == (Returned /\ Forest) => m_rooms = <<>>

(* C5: whatever was built before on this RoomGraph, the room list left by  *)
(* build(S) is the one build(S) leaves on a newly constructed RoomGraph.   *)
C5_RebuildAsFresh ==
    pc = "idle" => m_rooms = build(Constructed, segments, sortTies)

C5_Witness ==
    /\ Returned
    /\ builds = 2
    /\ Len(m_rooms) = 2
    /\ Len(m_nodes) = 6

UsedKept ==
    (pc \in Walking /\ pc' \in Walking) =>
        \A k \in 1..Len(m_edges) : m_edges[k].used => m_edges'[k].used

WalksDisjoint ==
    /\ \A a, b \in 1..Len(walks) :
         \A p \in 1..Len(walks[a]), q \in 1..Len(walks[b]) :
            walks[a][p] = walks[b][q] => (a = b /\ p = q)
    /\ \A r, s \in 1..Len(roomWalk) : roomWalk[r] = roomWalk[s] => r = s
    /\ Len(roomWalk) = Len(m_rooms)
    /\ pc \in Walking =>
         \A e \in EdgeIds :
            EdgeAt(e).used <=> \E a \in 1..Len(walks) :
                                 \E p \in 1..Len(walks[a]) : walks[a][p] = e

(* C6: during the walk a used flag once true stays true, a half-edge is    *)
(* marked by exactly one walk, once, and no two rooms come from one walk.  *)
C6_VisitedOnce == [][UsedKept]_vars /\ []WalksDisjoint

C6_Witness ==
    /\ Returned
    /\ Len(m_rooms) = 2
    /\ Len(walks) >= 3
    /\ \A e \in EdgeIds : EdgeAt(e).used

(* C7 as stated: (0,0) and (0.0005,0.0005) resolve to one node, (0,0) and  *)
(* (0.01,0.01) to two.                                                     *)
C7_HalfStepMerges ==
    /\ (AfterNodes /\ {P0, P5} \subseteq EndPoints(segments)) =>
          Resolve(P0) = Resolve(P5)
    /\ (AfterNodes /\ {P0, P10} \subseteq EndPoints(segments)) =>
          Resolve(P0) # Resolve(P10)

(* C7 amended: (0,0) and (0.0005,0.0005) resolve to distinct nodes, as     *)
(* 0.0005 / 1e-3 + 0.5 = 1.0 floors to cell 1; (0.0004,0.0004) and         *)
(* (-0.0005,-0.0005) resolve to the node of (0,0); (0,0) and (0.01,0.01)   *)
(* resolve to distinct nodes.                                              *)
C7_HalfStepSplits ==
    /\ (AfterNodes /\ {P0, P5} \subseteq EndPoints(segments)) =>
          Resolve(P0) # Resolve(P5)
    /\ (AfterNodes /\ {P0, P4} \subseteq EndPoints(segments)) =>
          Resolve(P0) = Resolve(P4)
    /\ (AfterNodes /\ {P0, PM5} \subseteq EndPoints(segments)) =>
          Resolve(P0) = Resolve(PM5)
    /\ (AfterNodes /\ {P0, P10} \subseteq EndPoints(segments)) =>
          Resolve(P0) # Resolve(P10)

C7_Witness ==
    /\ AfterNodes
    /\ segments = <<Segment(P4, P5), Segment(P10, P0)>>
    /\ Len(m_nodes) = 3
    /\ Resolve(P0) = 0

Accepted(segs) ==
    {k \in 1..Len(segs) : GridKey(segs[k].a) # GridKey(segs[k].b)}

(* C8: after buildNodesAndEdges there are 2 half-edges per segment whose   *)
(* endpoints resolved to different nodes, and twin pairs them: twin(e) is  *)
(* a valid id other than e, twin(twin(e)) = e, and twin(e) runs from e.to  *)
(* to e.from.                                                              *)
C8_TwinnedPairs ==
    AfterNodes =>
        /\ Len(m_edges) = 2 * Cardinality(Accepted(segments))
        /\ \A e \in EdgeIds :
              /\ EdgeAt(e).id = e
              /\ EdgeAt(e).twin \in EdgeIds
              /\ EdgeAt(e).twin # e
              /\ EdgeAt(EdgeAt(e).twin).twin = e
              /\ EdgeAt(EdgeAt(e).twin).from = EdgeAt(e).to
              /\ EdgeAt(EdgeAt(e).twin).to = EdgeAt(e).from

C8_Witness ==
    /\ AfterNodes
    /\ Len(segments) = 2
    /\ Cardinality(Accepted(segments)) = 1
    /\ segments[1].a # segments[1].b
    /\ Accepted(segments) = {2}
    /\ Len(m_edges) = 2

(* e runs into the far end of a dangling stub, a node of degree 1.         *)
StubEnd(e) == Len(OutOf(EdgeAt(e).to)) = 1

(* C9 as stated: after build the half-edge into the far end of a dangling  *)
(* stub has next unset.                                                    *)
C9_StubNextUnset ==
    AfterNext => \A e \in EdgeIds : StubEnd(e) => EdgeAt(e).next = -1

(* C9 amended: after build no half-edge has next unset; the half-edge into *)
(* the far end of a dangling stub has its twin as next, so a walk reaching *)
(* it turns back along the stub and never ends as a dead end.              *)
C9_StubNextIsTwin ==
    /\ AfterNext =>
          \A e \in EdgeIds :
             /\ EdgeAt(e).next # -1
             /\ StubEnd(e) => EdgeAt(e).next = EdgeAt(e).twin
    /\ exit # "unset"

C9_Witness ==
    /\ Returned
    /\ \E e \in EdgeIds : StubEnd(e) /\ EdgeAt(e).used
    /\ \E e \in EdgeIds : ~StubEnd(e) /\ ~StubEnd(EdgeAt(e).twin)
    /\ Len(m_rooms) = 1

(* C10: after buildNextRelations next is a bijection on the half-edges     *)
(* with next(e).from = e.to and next(e) # e, and every walk leaves its     *)
(* loop by coming back to its starting edge.                               *)
C10_NextBijection ==
    /\ AfterNext =>
          /\ \A e \in EdgeIds :
                /\ EdgeAt(e).next \in EdgeIds
                /\ EdgeAt(e).next # e
                /\ EdgeAt(EdgeAt(e).next).from = EdgeAt(e).to
          /\ \A e, f \in EdgeIds : EdgeAt(e).next = EdgeAt(f).next => e = f
    /\ exit \in {"none", "closed"}
    /\ pc = "finish" => exit = "closed"

C10_Witness ==
    /\ pc = "finish"
    /\ exit = "closed"
    /\ \E e, f \in EdgeIds :
          /\ e # f
          /\ EdgeAt(e).from = EdgeAt(f).from
          /\ EdgeAt(e).angle = EdgeAt(f).angle
    /\ \E e \in EdgeIds : StubEnd(e)
    /\ Len(poly) >= 5

====
